---- MODULE Spec2Model ----
(***************************************************************************)
(* A model of luminos-container's Container (src/src/container.rs): the    *)
(* three TypeId-keyed maps (services, singletons, factories), the provider *)
(* list, and the operations of `impl Contract for Container`.              *)
(*                                                                         *)
(* Option<T> is modelled as a set with at most one element: None is {},    *)
(* Some(x) is {x}.  A Box<dyn Any> is a record [id, val, by]: id is the    *)
(* allocation (two boxes are the same instance iff their ids are equal),   *)
(* val the payload, by the closure that built it ("caller" for a box the   *)
(* caller passed in).                                                      *)
(***************************************************************************)
EXTENDS Naturals, Sequences, FiniteSets

\* ---------------------------------------------------------------- bounds
\* Boxes allocated over a run (caller-supplied values and factory results).
MaxInst == 3
\* Calls of boot() over a run.
MaxBoots == 2

\* ------------------------------------------------------------- universes
\* TypeId values used as keys.
Types == {"T1", "T2"}
\* Factory closures handed to bind / singleton_factory.
Factories == {"F1", "F2"}
\* Service providers (each Box<dyn ServiceProvider> is moved in at most once).
Providers == {"P1", "P2", "P3"}
\* Payload of a box the caller passes to singleton / bind_any
\* (tests: `Box::new(TestService::new(value))` with value = 42).
Vals == {42}

\* The value a factory closure produces (tests: `move |_| TestService::new(value)`).
FactoryVal(f) == IF f = "F1" THEN 42 ELSE 99

VARIABLES
    services,    \* self.services   : HashMap<TypeId, Box<dyn Any>>
    singletons,  \* self.singletons : HashMap<TypeId, Box<dyn Any>>
    factories,   \* self.factories  : HashMap<TypeId, Box<dyn Fn>>
    providers,   \* self.providers  : Vec<Box<dyn ServiceProvider>>
    taken,       \* boot's local `providers` (the list taken out of self)
    idx,         \* boot's loop position in `taken` (1-based)
    pc,          \* "idle"; "boot" while boot() is inside its loop;
                 \* "transient" while a transient() call is inside a factory;
                 \* "overflow" once the call stack is exhausted
    stack,       \* the frames of the factories a transient() call is inside,
                 \* outermost first
    boots,       \* number of boot() calls started
    added,       \* providers already moved into register_provider
    log,         \* history: calls and provider callbacks, in order
    built,       \* history: every box a factory closure has built (one
                 \* per invocation)
    nextId,      \* next fresh allocation id
    seeded,      \* history: identities ever given to singleton,
                 \* singleton_factory or bind_any
    last         \* the last operation called and what it returned

vars == <<services, singletons, factories, providers, taken, idx, pc, stack,
          boots, added, log, built, nextId, seeded, last>>

mapVars == <<services, singletons, factories>>
lifeVars == <<providers, taken, idx, pc, stack, boots, added, log>>

\* ------------------------------------------------------------ primitives
None == {}
Some(x) == {x}

\* HashMap::new()
EmptyMap == [k \in {} |-> 0]

\* HashMap::insert: stores the value, replacing any value already under k.
insert(m, k, v) == [x \in DOMAIN m \cup {k} |-> IF x = k THEN v ELSE m[x]]

\* HashMap::get
get(m, k) == IF k \in DOMAIN m THEN Some(m[k]) ELSE None

\* Box::new(value) by the caller: a fresh allocation.
Box(id, v) == [id |-> id, val |-> v, by |-> "caller"]

\* factory(self): the closure runs and boxes what it built.
CallFactory(f, id) == [id |-> id, val |-> FactoryVal(f), by |-> f]

\* The container as one value.
self == [services |-> services, singletons |-> singletons,
         factories |-> factories, providers |-> providers]

\* ------------------------------------------------- the container's methods
\* Each method is an operator on the container value; a method that takes
\* &mut self yields the new value of the field it writes.

\* Mutant: bind_factory that keeps the factory already registered.
MutBindFactoryKeepsFirst(c, type_id, factory) ==
    IF type_id \in DOMAIN c.factories
    THEN c.factories
    ELSE insert(c.factories, type_id, factory)

\* fn bind_factory(&mut self, type_id, factory)
bind_factory(c, type_id, factory) == insert(c.factories, type_id, factory)

\* fn bind<T, F>(&mut self, _marker: T, f: F): wraps f and calls bind_factory
\* under TypeId::of::<T>().
bind(c, type_id, f) == bind_factory(c, type_id, f)

\* Mutant: bind_any that replaces the whole services map by the one entry.
MutBindAnyReplacesAll(c, type_id, value) == insert(EmptyMap, type_id, value)

\* fn bind_any(&mut self, type_id, value)
bind_any(c, type_id, value) == insert(c.services, type_id, value)

\* Mutant: resolve_any that consults the factory registry first and builds.
MutResolveAnyFactoryFirst(c, type_id) ==
    IF type_id \in DOMAIN c.factories
    THEN Some(CallFactory(c.factories[type_id], nextId))
    ELSE IF type_id \in DOMAIN c.singletons
         THEN get(c.singletons, type_id)
         ELSE get(c.services, type_id)

\* Mutant: resolve_any that falls back to building from the factory.
MutResolveAnyBuilds(c, type_id) ==
    IF type_id \in DOMAIN c.singletons
    THEN get(c.singletons, type_id)
    ELSE IF type_id \in DOMAIN c.services
         THEN get(c.services, type_id)
         ELSE IF type_id \in DOMAIN c.factories
              THEN Some(CallFactory(c.factories[type_id], nextId))
              ELSE None

\* Mutant: resolve_any that consults the services map before the singletons.
MutResolveAnyServicesFirst(c, type_id) ==
    IF type_id \in DOMAIN c.services
    THEN get(c.services, type_id)
    ELSE get(c.singletons, type_id)

\* fn resolve_any(&self, type_id) -> Option<&dyn Any>
resolve_any(c, type_id) ==
    IF type_id \in DOMAIN c.singletons
    THEN get(c.singletons, type_id)
    ELSE get(c.services, type_id)

\* Mutant: transient that hands out again a box the factory built earlier.
MutTransientMemoizes(c, type_id, id) ==
    IF type_id \in DOMAIN c.factories
    THEN LET old == {x \in built : x.by = c.factories[type_id]} IN
         IF old # {}
         THEN Some(CHOOSE x \in old : TRUE)
         ELSE Some(CallFactory(c.factories[type_id], id))
    ELSE None

\* Mutant: transient that builds a default instance for an unbound identity.
MutTransientDefaults(c, type_id, id) ==
    IF type_id \in DOMAIN c.factories
    THEN Some(CallFactory(c.factories[type_id], id))
    ELSE Some(Box(id, 0))

\* fn transient(&self, type_id) -> Option<Box<dyn Any>>; id is the allocation
\* the factory's Box::new gets.
transient(c, type_id, id) ==
    IF type_id \in DOMAIN c.factories
    THEN Some(CallFactory(c.factories[type_id], id))
    ELSE None

\* Mutant: singleton that keeps the instance already cached.
MutSingletonKeepsFirst(c, type_id, value) ==
    IF type_id \in DOMAIN c.singletons
    THEN c.singletons
    ELSE insert(c.singletons, type_id, value)

\* fn singleton(&mut self, type_id, value)
singleton(c, type_id, value) == insert(c.singletons, type_id, value)

\* Mutant: singleton_factory that invokes the factory a second time and
\* stores the second result.
MutSingletonFactoryBuildsTwice(c, type_id, factory, id) ==
    insert(c.singletons, type_id, CallFactory(factory, id + 1))

\* fn singleton_factory(&mut self, type_id, factory)
singleton_factory(c, type_id, factory, id) ==
    insert(c.singletons, type_id, CallFactory(factory, id))

\* How often factory closure f has been invoked.
calls(f) == Cardinality({x \in built : x.by = f})

\* What the last call was: op, its TypeId and closure arguments ("-" when it
\* has none), the box it stored (put) and the Option it returned (ret).
Ret(op, t, f, put, ret) == [op |-> op, t |-> t, f |-> f, put |-> put, ret |-> ret]

\* ---------------------------------------------------------------- Init
\* Container::new(): every map and the provider list empty.
Init ==
    /\ services = EmptyMap
    /\ singletons = EmptyMap
    /\ factories = EmptyMap
    /\ providers = << >>
    /\ taken = << >>
    /\ idx = 1
    /\ pc = "idle"
    /\ stack = << >>
    /\ boots = 0
    /\ added = {}
    /\ log = << >>
    /\ built = {}
    /\ nextId = 1
    /\ seeded = {}
    /\ last = Ret("new", "-", "-", None, None)

\* ------------------------------------------------ actions: the three maps
Bind(t, f) ==
    /\ pc = "idle"
    /\ factories' = bind(self, t, f)
    /\ last' = Ret("bind", t, f, None, None)
    /\ UNCHANGED <<services, singletons, built, nextId, seeded>>
    /\ UNCHANGED lifeVars

BindAny(t, v) ==
    /\ pc = "idle"
    /\ nextId <= MaxInst
    /\ services' = bind_any(self, t, Box(nextId, v))
    /\ nextId' = nextId + 1
    /\ seeded' = seeded \cup {t}
    /\ last' = Ret("bind_any", t, "-", Some(Box(nextId, v)), None)
    /\ UNCHANGED <<singletons, factories, built>>
    /\ UNCHANGED lifeVars

Singleton(t, v) ==
    /\ pc = "idle"
    /\ nextId <= MaxInst
    /\ singletons' = singleton(self, t, Box(nextId, v))
    /\ nextId' = nextId + 1
    /\ seeded' = seeded \cup {t}
    /\ last' = Ret("singleton", t, "-", Some(Box(nextId, v)), None)
    /\ UNCHANGED <<services, factories, built>>
    /\ UNCHANGED lifeVars

SingletonFactory(t, f) ==
    /\ pc = "idle"
    /\ nextId <= MaxInst
    /\ singletons' = singleton_factory(self, t, f, nextId)
    /\ built' = built \cup {CallFactory(f, nextId)}
    /\ nextId' = nextId + 1
    /\ seeded' = seeded \cup {t}
    /\ last' = Ret("singleton_factory", t, f, Some(CallFactory(f, nextId)), None)
    /\ UNCHANGED <<services, factories>>
    /\ UNCHANGED lifeVars

ResolveAny(t) ==
    /\ pc = "idle"
    /\ last' = Ret("resolve_any", t, "-", None, resolve_any(self, t))
    /\ UNCHANGED <<services, singletons, factories, built, nextId, seeded>>
    /\ UNCHANGED lifeVars

\* Mutant: transient that caches what it built in the services map.
MutTransientCaches(t) ==
    /\ pc = "idle"
    /\ t \in DOMAIN factories => nextId <= MaxInst
    /\ LET r == transient(self, t, nextId) IN
        /\ last' = Ret("transient", t, "-", None, r)
        /\ built' = built \cup r
        /\ nextId' = nextId + Cardinality(r)
        /\ services' = IF r = None THEN services
                       ELSE insert(services, t, CHOOSE x \in r : TRUE)
    /\ UNCHANGED <<singletons, factories, seeded>>
    /\ UNCHANGED lifeVars

Transient(t) ==
    /\ pc = "idle"
    /\ t \in DOMAIN factories => nextId <= MaxInst
    /\ LET r == transient(self, t, nextId) IN
        /\ last' = Ret("transient", t, "-", None, r)
        /\ built' = built \cup r
        /\ nextId' = nextId + Cardinality(r)
    /\ UNCHANGED <<services, singletons, factories, seeded>>
    /\ UNCHANGED lifeVars

NextBindings ==
    \/ \E t \in Types, f \in Factories : Bind(t, f)
    \/ \E t \in Types, v \in Vals : BindAny(t, v)
    \/ \E t \in Types, v \in Vals : Singleton(t, v)
    \/ \E t \in Types, f \in Factories : SingletonFactory(t, f)
    \/ \E t \in Types : ResolveAny(t)
    \/ \E t \in Types : Transient(t)

\* ------------------------------------------- actions: the provider lifecycle
\* A log entry: a call of a container method or a provider callback.  A
\* method called by the application is logged as "call ..."; the same method
\* called from inside a provider callback is logged as "nested call ...".
Ev(k, p) == [k |-> k, p |-> p]

\* What a provider callback does with the `&mut` container it is handed.  The
\* callbacks are the caller's code; the model lets each invocation do one of:
\* nothing, bind a factory, or hand a further provider q to register_provider
\* (q's own register callback then does nothing further).
NoEffect == [e |-> "none", t |-> "-", f |-> "-", p |-> "-"]
Effects(free) ==
    {NoEffect}
    \cup {[e |-> "bind_factory", t |-> t, f |-> f, p |-> "-"] :
            t \in Types, f \in Factories}
    \cup {[e |-> "register_provider", t |-> "-", f |-> "-", p |-> q] : q \in free}

\* The part of the state a callback can reach, as one value.
World == [factories |-> factories, providers |-> providers,
          added |-> added, log |-> log]

\* fn register_provider(&mut self, provider) with a provider whose register
\* callback does nothing: provider.register(self); self.providers.push(provider).
register_plain(w, p) ==
    [w EXCEPT !.log = @ \o <<Ev("nested call register_provider", p),
                             Ev("register", p)>>,
              !.added = @ \cup {p},
              !.providers = Append(@, p)]

\* The body of a callback with effect e.
callback(w, e) ==
    CASE e.e = "bind_factory" ->
            [w EXCEPT !.factories = insert(@, e.t, e.f)]
      [] e.e = "register_provider" -> register_plain(w, e.p)
      [] OTHER -> w

\* Mutant: register_provider that puts the provider at the front of the list.
MutRegisterProviderPushesFront(w, p, e) ==
    LET w1 == [w EXCEPT !.log = @ \o <<Ev("call register_provider", p),
                                        Ev("register", p)>>,
                        !.added = @ \cup {p}]
        w2 == callback(w1, e)
    IN  [w2 EXCEPT !.providers = <<p>> \o @]

\* Mutant: register_provider that lists the provider without running its
\* register callback.
MutRegisterProviderSkipsRegister(w, p, e) ==
    [w EXCEPT !.log = Append(@, Ev("call register_provider", p)),
              !.added = @ \cup {p},
              !.providers = Append(@, p)]

\* Mutant: register_provider that pushes the provider first and runs its
\* register callback afterwards.
MutRegisterProviderPushesFirst(w, p, e) ==
    LET w1 == [w EXCEPT !.log = @ \o <<Ev("call register_provider", p),
                                        Ev("register", p)>>,
                        !.added = @ \cup {p},
                        !.providers = Append(@, p)]
    IN  callback(w1, e)

\* fn register_provider(&mut self, provider): the register callback runs
\* first, then the provider is pushed.
register_provider(w, p, e) ==
    LET w1 == [w EXCEPT !.log = @ \o <<Ev("call register_provider", p),
                                        Ev("register", p)>>,
                        !.added = @ \cup {p}]
        w2 == callback(w1, e)
    IN  [w2 EXCEPT !.providers = Append(@, p)]

RegisterProvider(p, e) ==
    /\ pc = "idle"
    /\ p \notin added
    /\ LET w == register_provider(World, p, e) IN
        /\ factories' = w.factories
        /\ providers' = w.providers
        /\ added' = w.added
        /\ log' = w.log
    /\ last' = Ret("register_provider", "-", "-", None, None)
    /\ UNCHANGED <<services, singletons, built, nextId, seeded>>
    /\ UNCHANGED <<taken, idx, pc, stack, boots>>

\* fn boot(&mut self), line 41: let mut providers = std::mem::take(&mut self.providers)
BootBegin ==
    /\ pc = "idle"
    /\ boots < MaxBoots
    /\ taken' = providers
    /\ providers' = << >>
    /\ idx' = 1
    /\ pc' = "boot"
    /\ boots' = boots + 1
    /\ log' = Append(log, Ev("call boot", "-"))
    /\ last' = Ret("boot", "-", "-", None, None)
    /\ UNCHANGED <<services, singletons, factories, built, nextId, seeded, added>>
    /\ UNCHANGED stack

\* Mutant: boot that runs the provider's register callback again before its
\* boot callback.
MutBootCallbackRegistersAgain(w, p, e) ==
    callback([w EXCEPT !.log = @ \o <<Ev("register", p), Ev("boot", p)>>], e)

\* boot, lines 43-45: one turn of the loop, provider.boot(self)
boot_callback(w, p, e) ==
    callback([w EXCEPT !.log = Append(@, Ev("boot", p))], e)

BootCallback(e) ==
    /\ pc = "boot"
    /\ idx <= Len(taken)
    /\ LET w == boot_callback(World, taken[idx], e) IN
        /\ factories' = w.factories
        /\ providers' = w.providers
        /\ added' = w.added
        /\ log' = w.log
    /\ idx' = idx + 1
    /\ UNCHANGED <<services, singletons, built, nextId, seeded, last>>
    /\ UNCHANGED <<taken, pc, stack, boots>>

\* boot, line 47: self.providers = providers
boot_restore(current, local) == local

BootEnd ==
    /\ pc = "boot"
    /\ idx > Len(taken)
    /\ providers' = boot_restore(providers, taken)
    /\ taken' = << >>
    /\ idx' = 1
    /\ pc' = "idle"
    /\ log' = Append(log, Ev("return boot", "-"))
    /\ UNCHANGED <<services, singletons, factories, built, nextId, seeded, last>>
    /\ UNCHANGED <<boots, added, stack>>

NextLifecycle ==
    \/ \E p \in Providers : \E e \in Effects(Providers \ (added \cup {p})) :
            RegisterProvider(p, e)
    \/ BootBegin
    \/ \E e \in Effects(Providers \ added) : BootCallback(e)
    \/ BootEnd

SpecLifecycle == Init /\ [][NextLifecycle]_vars

\* The map operations are checked from a fresh container and from one in which
\* the application has registered P1 and P2 (callbacks that do nothing).
InitBindings ==
    \E n \in {0, 2} :
        LET w0 == [factories |-> EmptyMap, providers |-> << >>,
                   added |-> {}, log |-> << >>]
            w2 == register_provider(register_provider(w0, "P1", NoEffect),
                                    "P2", NoEffect)
            w == IF n = 0 THEN w0 ELSE w2
        IN  /\ services = EmptyMap
            /\ singletons = EmptyMap
            /\ factories = w.factories
            /\ providers = w.providers
            /\ added = w.added
            /\ log = w.log
            /\ taken = << >>
            /\ idx = 1
            /\ pc = "idle"
            /\ stack = << >>
            /\ boots = 0
            /\ built = {}
            /\ nextId = 1
            /\ seeded = {}
            /\ last = Ret(IF n = 0 THEN "new" ELSE "register_provider",
                          "-", "-", None, None)

SpecBindings == InitBindings /\ [][NextBindings]_vars

\* ------------------------------- actions: factories that use the handle
\* A factory closure is handed the container as `&dyn Contract` and may call
\* its &self methods while it runs.  Besides the closures of Factories, which
\* ignore the handle, the model has closures that build their one dependency
\* with container.transient(TypeId of the dependency) and wrap what they get.
\* A transient() call of such an identity is modelled step by step, with the
\* frames of the factories it is inside kept in `stack`.

\* Frames the call stack has room for; a recursion that needs more aborts.
MaxDepth == 3

\* Closures that build a dependency through the handle, and the identity each
\* asks for.
DepFactories == {"D1", "D2"}
Dep(d) == IF d = "D1" THEN "T1" ELSE "T2"
AllFactories == Factories \cup DepFactories

\* The frame of factory f running for transient(t): stage is "enter" before
\* the closure has used the handle, "waiting" while its nested transient()
\* call runs, "resumed" once that call has returned `got`.
Frame(t, f) == [t |-> t, f |-> f, stage |-> "enter", got |-> None]
Top == stack[Len(stack)]

\* What a closure of DepFactories builds around the Option<Box> it got: it
\* owns the dependency (holds) and answers queries with the dependency's value.
wrap(f, id, got) ==
    [id |-> id,
     val |-> IF got = None THEN 0 ELSE (CHOOSE x \in got : TRUE).val,
     by |-> f,
     holds |-> got]

\* The dependency graph of the registered factories.
\* The identity the factory bound to t asks the container for, if any.
DepOf(t) ==
    IF t \in DOMAIN factories /\ factories[t] \in DepFactories
    THEN {Dep(factories[t])}
    ELSE {}
RECURSIVE ReachWithin(_, _)
ReachWithin(S, n) ==
    IF n = 0 THEN S ELSE ReachWithin(S \cup UNION {DepOf(x) : x \in S}, n - 1)
\* The identities building t leads to.
Reachable(t) == ReachWithin(DepOf(t), Cardinality(Types))
\* No identity on the way from t depends on itself.
AcyclicFrom(t) == \A u \in {t} \cup Reachable(t) : u \notin Reachable(u)

\* How many boxes transient(t) allocates: one per factory on the way from t
\* when the way ends, none when it runs in a circle (no factory returns).
Allocations(t) ==
    IF AcyclicFrom(t)
    THEN Cardinality(({t} \cup Reachable(t)) \cap DOMAIN factories)
    ELSE 0

\* fn transient(&self, type_id): self.factories.get(&type_id), and on Some
\* the factory is entered with the handle; on None the call returns None.
TransientEnter(t) ==
    /\ pc = "idle"
    /\ nextId + Allocations(t) <= MaxInst + 1
    /\ IF t \in DOMAIN factories
       THEN /\ stack' = <<Frame(t, factories[t])>>
            /\ pc' = "transient"
            /\ UNCHANGED last
       ELSE /\ last' = Ret("transient", t, "-", None, transient(self, t, nextId))
            /\ UNCHANGED <<stack, pc>>
    /\ UNCHANGED <<services, singletons, factories, built, nextId, seeded>>
    /\ UNCHANGED <<providers, taken, idx, boots, added, log>>

\* The innermost factory returns `box`: to the factory that called
\* transient() from inside its closure, or, from the outermost frame, to the
\* caller of transient().
factory_returns(box) ==
    /\ built' = built \cup {box}
    /\ nextId' = nextId + 1
    /\ IF Len(stack) = 1
       THEN /\ stack' = << >>
            /\ pc' = "idle"
            /\ last' = Ret("transient", Top.t, "-", None, Some(box))
       ELSE /\ stack' = [SubSeq(stack, 1, Len(stack) - 1)
                            EXCEPT ![Len(stack) - 1].got = Some(box),
                                   ![Len(stack) - 1].stage = "resumed"]
            /\ UNCHANGED <<pc, last>>
    /\ UNCHANGED <<services, singletons, factories, seeded>>
    /\ UNCHANGED <<providers, taken, idx, boots, added, log>>

\* A closure that ignores the handle builds its value and returns it boxed.
FactoryLeaf ==
    /\ pc = "transient"
    /\ Top.f \in Factories
    /\ factory_returns(CallFactory(Top.f, nextId))

\* Mutant: a nested transient() that waits for a lock the outermost call
\* holds until it returns (the lock is free only while the stack is empty).
MutFactoryCalledUnderLock ==
    /\ pc = "transient"
    /\ Top.f \in DepFactories
    /\ Top.stage = "enter"
    /\ stack = << >>
    /\ UNCHANGED vars

\* A closure of DepFactories calls container.transient(dep) through the
\* handle: the lookup either enters dep's factory or returns None at once.
FactoryCallsTransient ==
    /\ pc = "transient"
    /\ Top.f \in DepFactories
    /\ Top.stage = "enter"
    /\ LET d == Dep(Top.f) IN
        IF d \in DOMAIN factories
        THEN /\ Len(stack) < MaxDepth
             /\ stack' = Append([stack EXCEPT ![Len(stack)].stage = "waiting"],
                                Frame(d, factories[d]))
        ELSE stack' = [stack EXCEPT ![Len(stack)].stage = "resumed",
                                    ![Len(stack)].got = transient(self, d, nextId)]
    /\ UNCHANGED <<services, singletons, factories, built, nextId, seeded, last>>
    /\ UNCHANGED <<providers, taken, idx, pc, boots, added, log>>

\* Mutant: a closure that wraps a dependency it built on an earlier call
\* instead of the one it was just handed.
MutWrapReusesDependency(f, id, got) ==
    LET old == {x \in built : x.by \in Factories /\ x \notin got} IN
    IF old # {}
    THEN wrap(f, id, Some(CHOOSE x \in old : TRUE))
    ELSE wrap(f, id, got)

\* The closure of DepFactories gets the nested call's result and returns its
\* own value boxed (Box::new(f(container)) in bind).
factory_wraps(f, id, got) == wrap(f, id, got)

FactoryWraps ==
    /\ pc = "transient"
    /\ Top.f \in DepFactories
    /\ Top.stage = "resumed"
    /\ factory_returns(factory_wraps(Top.f, nextId, Top.got))

\* The recursion transient -> factory -> transient needs a frame the stack
\* does not have: the process aborts.
StackOverflow ==
    /\ pc = "transient"
    /\ Top.f \in DepFactories
    /\ Top.stage = "enter"
    /\ Dep(Top.f) \in DOMAIN factories
    /\ Len(stack) = MaxDepth
    /\ pc' = "overflow"
    /\ UNCHANGED <<services, singletons, factories, built, nextId, seeded, last>>
    /\ UNCHANGED <<providers, taken, idx, stack, boots, added, log>>

\* The steps a running transient() call takes by itself.
FactoryRuns == FactoryLeaf \/ FactoryCallsTransient \/ FactoryWraps \/ StackOverflow

NextReentrant ==
    \/ \E t \in Types, f \in AllFactories : Bind(t, f)
    \/ \E t \in Types : ResolveAny(t)
    \/ \E t \in Types : TransientEnter(t)
    \/ FactoryLeaf
    \/ FactoryCallsTransient
    \/ FactoryWraps
    \/ StackOverflow

\* A call that has started runs on: the code is sequential, so a step of the
\* running call is taken whenever one is possible.
SpecReentrant == Init /\ [][NextReentrant]_vars /\ WF_vars(FactoryRuns)

\* The whole container.  The map operations and the provider lifecycle share
\* only the factories map (a callback may bind), so the properties of each are
\* checked under its own specification: SpecBindings, SpecLifecycle, or
\* SpecReentrant for factories that call back into the container.
Next == NextBindings \/ NextLifecycle \/ NextReentrant

Spec == Init /\ [][Next]_vars

\* ============================================================ properties
\* ------------------------------------------------------ reading the log
IsCallback(e) == e.k \in {"register", "boot"}
IsCall(e) == e.k \in {"call register_provider", "nested call register_provider",
                    "call boot", "return boot"}
\* The provider callbacks that ran, in order.
Callbacks == SelectSeq(log, IsCallback)
\* The container methods called (and boot's returns), in order.
CallsMade == SelectSeq(log, IsCall)
\* Positions of the log where boot() was entered / left.
BootCalls == {i \in DOMAIN log : log[i].k = "call boot"}
BootReturns == {i \in DOMAIN log : log[i].k = "return boot"}
\* The boot() calls that have returned, each as <<entry, exit>> positions.
BootSpans ==
    {<<b, r>> \in BootCalls \X BootReturns :
        /\ b < r
        /\ \A x \in BootReturns : x > b => r <= x}
\* How often callback k of provider p ran between log positions lo and hi.
CountIn(k, p, lo, hi) ==
    Cardinality({i \in DOMAIN log : lo < i /\ i < hi /\ log[i] = Ev(k, p)})
\* Log positions where a provider was handed to register_provider.
Additions ==
    {i \in DOMAIN log :
        log[i].k \in {"call register_provider", "nested call register_provider"}}
\* Providers handed to register_provider before log position i.
AddedBefore(i) == {log[j].p : j \in {x \in Additions : x < i}}
\* Whether log position i lies inside a boot() call.
InsideBoot(i) ==
    \E b \in BootCalls : b < i /\ \A r \in BootReturns : r > b => i < r
\* Providers handed to register_provider before log position i, and not from
\* inside a boot() call.
AddedOutsideBootBefore(i) ==
    {log[j].p : j \in {x \in Additions : x < i /\ ~InsideBoot(x)}}
\* No provider callback has called register_provider.
NoNestedCalls ==
    \A i \in DOMAIN log : log[i].k # "nested call register_provider"
\* The elements of a sequence.
Range(q) == {q[i] : i \in DOMAIN q}

\* C1: two providers a, b added to a fresh container in that order, then one
\* boot(): the callbacks run as a.register, b.register, a.boot, b.boot.
C1_RegisterThenBootInOrder ==
    \A a, b \in Providers :
        (/\ a # b
         /\ CallsMade = <<Ev("call register_provider", a),
                          Ev("call register_provider", b),
                          Ev("call boot", "-"), Ev("return boot", "-")>>)
        => Callbacks = <<Ev("register", a), Ev("register", b),
                         Ev("boot", a), Ev("boot", b)>>

\* C1 witness: P1 then P2 were added, boot() ran once and returned, and both
\* boot callbacks have run.
C1_Witness ==
    /\ CallsMade = <<Ev("call register_provider", "P1"),
                     Ev("call register_provider", "P2"),
                     Ev("call boot", "-"), Ev("return boot", "-")>>
    /\ Len(Callbacks) = 4
    /\ pc = "idle"

C7_Original_BootRerunsRegister ==
    (NoNestedCalls /\ Cardinality(BootSpans) >= 2) =>
        \A s \in BootSpans :
            \A p \in AddedOutsideBootBefore(s[1]) :
                /\ CountIn("register", p, s[1], s[2]) = 1
                /\ CountIn("boot", p, s[1], s[2]) = 1

\* C7 amended: boot() re-runs boot callbacks only.  The list a boot() call
\* iterates holds the providers added outside any boot() call; each boot()
\* call invokes the boot callback of every one of them exactly once and the
\* register callback of none; the register callback of each has run exactly
\* once in all, at register_provider.
C7_BootRerunsBootOnly ==
    /\ pc = "boot" => Range(taken) = AddedOutsideBootBefore(Len(log) + 1)
    /\ \A s \in BootSpans :
        \A p \in AddedOutsideBootBefore(s[1]) :
            /\ CountIn("boot", p, s[1], s[2]) = 1
            /\ CountIn("register", p, s[1], s[2]) = 0
            /\ CountIn("register", p, 0, Len(log) + 1) = 1

\* C7 witness: two boot() calls have returned and a provider that was in the
\* list for both was booted by both.
C7_Witness ==
    /\ Cardinality(BootSpans) >= 2
    /\ \E p \in Providers :
        /\ \A s \in BootSpans : p \in AddedOutsideBootBefore(s[1])
        /\ CountIn("boot", p, 0, Len(log) + 1) = 2

\* --------------------------------------------------- reading the maps
\* Every allocation the container or its factories have seen.
IdsInUse ==
    {x.id : x \in built}
    \cup {services[t].id : t \in DOMAIN services}
    \cup {singletons[t].id : t \in DOMAIN singletons}
\* Identities with no cached instance and no factory.
Unbound == Types \ (DOMAIN singletons \cup DOMAIN services \cup DOMAIN factories)

\* C3: resolving an identity that singleton() seeded returns exactly the
\* instance in the singletons map and invokes no factory, whether or not a
\* factory or a bind_any value exists for the same identity.
C3_SingletonWinsOverFactory ==
    [][(last'.op = "resolve_any" /\ last'.t \in DOMAIN singletons) =>
            /\ last'.ret = Some(singletons[last'.t])
            /\ built' = built
            /\ nextId' = nextId]_vars

\* C3 witness: T1 was seeded with singleton() and also has a factory; the
\* last call resolved T1 and got the seeded box.
C3_Witness ==
    /\ last.op = "resolve_any"
    /\ last.t = "T1"
    /\ "T1" \in DOMAIN singletons
    /\ "T1" \in DOMAIN factories
    /\ last.ret = Some(singletons["T1"])
    /\ singletons["T1"].by = "caller"

C5_TransientNeverCaches ==
    /\ [](\A t \in Types \ seeded : resolve_any(self, t) = None)
    /\ [][last'.op = "transient" =>
            UNCHANGED <<services, singletons, factories, providers>>]_vars

\* C5 witness: T1 was bound and built transiently, never seeded, and
\* resolve_any(T1) then returned None.
C5_Witness ==
    /\ last.op = "resolve_any"
    /\ last.t = "T1"
    /\ "T1" \in DOMAIN factories
    /\ "T1" \notin seeded
    /\ calls(factories["T1"]) >= 2
    /\ last.ret = None

\* C6: every transient call for a bound identity invokes the factory that is
\* registered at that moment once more and returns a box no earlier call
\* returned.
C6_TransientBuildsAfresh ==
    [][(last'.op = "transient" /\ last'.t \in DOMAIN factories /\ vars' # vars) =>
            \E x \in last'.ret :
                /\ last'.ret = Some(x)
                /\ x.by = factories[last'.t]
                /\ x.val = FactoryVal(factories[last'.t])
                /\ x \notin built
                /\ x.id \notin IdsInUse
                /\ built' = built \cup {x}]_vars

\* C6 witness: transient(T1) ran under factory F1, T1 was rebound to F2, and
\* transient(T1) ran again: two boxes, the second one F2's.
C6_Witness ==
    /\ last.op = "transient"
    /\ last.t = "T1"
    /\ DOMAIN factories = {"T1"}
    /\ singletons = EmptyMap
    /\ \E x \in built : x.by = "F1" /\ x.val = 42
    /\ \E y \in last.ret : y.by = "F2" /\ y.val = 99
    /\ Cardinality(built) = 2

\* C8 as stated: the cache is first-writer-wins: once an identity resolves to
\* an instance, no later operation changes what it resolves to.
C8_Original_FirstWriterWins ==
    [][\A t \in Types :
            resolve_any(self, t) # None =>
                resolve_any(self, t)' = resolve_any(self, t)]_vars

\* C8 amended: each cache map is last-writer-wins.  singleton and
\* singleton_factory replace the cached instance, so the identity resolves to
\* the box just stored; bind_any replaces the services entry, which the
\* identity resolves to unless a singleton exists; and only a put for an
\* identity changes what that identity resolves to.
C8_LastWriterWins ==
    [][\A t \in Types :
        /\ (last'.op \in {"singleton", "singleton_factory"} /\ last'.t = t) =>
                (vars' # vars => resolve_any(self, t)' = last'.put)
        /\ (last'.op = "bind_any" /\ last'.t = t) =>
                (vars' # vars =>
                    /\ get(services, t)' = last'.put
                    /\ t \notin DOMAIN singletons =>
                            resolve_any(self, t)' = last'.put)
        /\ resolve_any(self, t)' # resolve_any(self, t) =>
                /\ last'.op \in {"singleton", "singleton_factory", "bind_any"}
                /\ last'.t = t]_vars

\* C8 witness: T1 was seeded twice with singleton(); it now resolves to the
\* second box.
C8_Witness ==
    /\ last.op = "resolve_any"
    /\ last.t = "T1"
    /\ seeded = {"T1"}
    /\ services = EmptyMap
    /\ built = {}
    /\ nextId = 3
    /\ \E x \in last.ret : x.id = 2

\* C9: the factory registry is last-write-wins.  bind stores the factory for
\* its identity, over any factory already there, and changes no other
\* identity's factory; nothing but bind changes the registry; and transient
\* builds with the factory most recently bound.
C9_LastBindWins ==
    [][/\ \A t \in Types :
            (last'.op = "bind" /\ last'.t = t) =>
                /\ get(factories, t)' = Some(last'.f)
                /\ \A u \in Types \ {t} : get(factories, u)' = get(factories, u)
       /\ last'.op \in {"bind_any", "singleton", "singleton_factory",
                        "resolve_any", "transient"} =>
            factories' = factories
       /\ (last'.op = "transient" /\ last'.t \in DOMAIN factories) =>
            \A x \in last'.ret : x.by = factories[last'.t]]_vars

\* C9 witness: T1 was bound to F1 and built, rebound to F2, and the last
\* transient(T1) was built by F2.
C9_Witness ==
    /\ last.op = "transient"
    /\ last.t = "T1"
    /\ DOMAIN factories = {"T1"}
    /\ factories["T1"] = "F2"
    /\ singletons = EmptyMap
    /\ \E x \in built : x.by = "F1"
    /\ \E y \in last.ret : y.by = "F2"

\* C10: resolve_any and transient of an identity with no cached instance and
\* no factory return None, build nothing, and leave the maps and the provider
\* list as they were.
C10_UnboundFailsCleanly ==
    [][(last'.op \in {"resolve_any", "transient"} /\ last'.t \in Unbound) =>
            /\ last'.ret = None
            /\ built' = built
            /\ nextId' = nextId
            /\ UNCHANGED <<services, singletons, factories, providers>>]_vars

\* C10 witness: T1 is bound and cached, T2 is in no map, and the last call,
\* transient(T2), returned None.
C10_Witness ==
    /\ last.op = "transient"
    /\ last.t = "T2"
    /\ "T2" \in Unbound
    /\ "T1" \in DOMAIN factories
    /\ "T1" \in DOMAIN singletons
    /\ last.ret = None

\* ------------------------------------------------ self-registering types
\* Identities whose type carries a self-registration capability (the types
\* the example programs mark #[injectable]).
Injectable == Types

\* C11: an identity with no binding whose type can register itself resolves
\* successfully: the resolve registers the type's own factory and returns an
\* instance.
C11_SelfRegistrationFallback ==
    [][(last'.op = "resolve_any" /\ last'.t \in Injectable /\ last'.t \in Unbound) =>
            /\ last'.ret # None
            /\ last'.t \in DOMAIN factories']_vars

C15_IdentitiesIndependent ==
    [][\A a \in Types :
        (/\ last'.op \in {"singleton", "singleton_factory", "bind", "bind_any",
                          "resolve_any", "transient"}
         /\ last'.t = a
         /\ vars' # vars) =>
            \A b \in Types \ {a} :
                /\ get(singletons, b)' = get(singletons, b)
                /\ get(services, b)' = get(services, b)
                /\ get(factories, b)' = get(factories, b)
                /\ resolve_any(self, b)' = resolve_any(self, b)
                /\ \A i \in 1..(MaxInst + 1) :
                        transient(self, b, i)' = transient(self, b, i)]_vars

\* C15 witness: T1 holds a singleton the caller passed in, T2 is bound to F2
\* and was just built transiently; T1 still resolves to its singleton and T2,
\* never seeded, resolves to None.
C15_Witness ==
    /\ last.op = "transient"
    /\ last.t = "T2"
    /\ DOMAIN singletons = {"T1"}
    /\ singletons["T1"].by = "caller"
    /\ DOMAIN factories = {"T2"}
    /\ factories["T2"] = "F2"
    /\ \E y \in last.ret : y.by = "F2" /\ y.val = 99
    /\ resolve_any(self, "T1") = Some(singletons["T1"])
    /\ "T2" \notin seeded
    /\ resolve_any(self, "T2") = None

\* C19: resolve_any consults the singletons map before the services map.  For
\* an identity in both maps it returns the singleton box, whichever of the two
\* was stored first; it returns the bind_any box exactly when the identity has
\* one and no singleton; and it returns None exactly when the identity is in
\* neither map.
C19_SingletonsBeforeServices ==
    [][\A t \in Types :
        (last'.op = "resolve_any" /\ last'.t = t) =>
            /\ t \in DOMAIN singletons => last'.ret = Some(singletons[t])
            /\ (t \notin DOMAIN singletons /\ t \in DOMAIN services) =>
                    last'.ret = Some(services[t])
            /\ last'.ret = None <=>
                    (t \notin DOMAIN singletons /\ t \notin DOMAIN services)
            /\ \A x \in last'.ret :
                    (t \in DOMAIN services /\ x = services[t]) =>
                        (t \notin DOMAIN singletons \/ singletons[t] = x)]_vars

\* C19 witness: T1 has a singleton and a bind_any box, the bind_any box stored
\* after the singleton, and the last call, resolve_any(T1), returned the
\* singleton.
C19_Witness ==
    /\ last.op = "resolve_any"
    /\ last.t = "T1"
    /\ "T1" \in DOMAIN singletons
    /\ "T1" \in DOMAIN services
    /\ services["T1"].id > singletons["T1"].id
    /\ last.ret = Some(singletons["T1"])
    /\ last.ret # Some(services["T1"])

\* ------------------------------------------- reading one registration
IsBootCallback(e) == e.k = "boot"
\* The providers whose boot callback has run since boot() was last entered,
\* in order.
BootedSinceEntry ==
    LET b == CHOOSE x \in BootCalls : \A y \in BootCalls : y <= x
        s == SelectSeq(SubSeq(log, b + 1, Len(log)), IsBootCallback)
    IN  [i \in DOMAIN s |-> s[i].p]

\* C18: each provider's register callback runs exactly once per container,
\* inside the register_provider call that hands the provider over and before
\* the provider is appended (a provider its callback registers lands in the
\* list ahead of it); boot() invokes boot callbacks only, one per provider of
\* the list it took, in list order.
C18_RegisterOnceBootOnlyBoots ==
    /\ [](/\ \A p \in Providers :
                CountIn("register", p, 0, Len(log) + 1) = IF p \in added THEN 1 ELSE 0
          /\ \A i \in DOMAIN log :
                log[i].k = "register" =>
                    /\ i > 1
                    /\ log[i - 1] \in {Ev("call register_provider", log[i].p),
                                       Ev("nested call register_provider", log[i].p)}
          /\ pc = "boot" => BootedSinceEntry = SubSeq(taken, 1, idx - 1))
    /\ [][(last'.op = "register_provider" /\ pc = "idle" /\ log' # log) =>
            LET new == SubSeq(log', Len(log) + 1, Len(log'))
                p == new[1].p
            IN  /\ new[1] = Ev("call register_provider", p)
                /\ new[2] = Ev("register", p)
                /\ p \notin added
                /\ Len(new) \in {2, 4}
                /\ Len(new) = 2 => providers' = Append(providers, p)
                /\ Len(new) = 4 =>
                        /\ new[3] = Ev("nested call register_provider", new[3].p)
                        /\ new[4] = Ev("register", new[3].p)
                        /\ providers' = providers \o <<new[3].p, p>>]_vars

\* C18 witness: boot() has never been called, P1's register callback handed P2
\* to register_provider, so the list is P2, P1, and P3's register callback has
\* bound a factory that is already in the registry.
C18_Witness ==
    /\ boots = 0
    /\ BootCalls = {}
    /\ log = <<Ev("call register_provider", "P1"), Ev("register", "P1"),
               Ev("nested call register_provider", "P2"), Ev("register", "P2"),
               Ev("call register_provider", "P3"), Ev("register", "P3")>>
    /\ providers = <<"P2", "P1", "P3">>
    /\ DOMAIN factories = {"T1"}

\* C17: no provider is lost by boot().  Whenever no boot() call is running,
\* the provider list holds every provider whose register callback has run, a
\* provider registered from inside a boot callback included.
C17_NoProviderLostByBoot ==
    pc = "idle" =>
        \A p \in Providers :
            (\E i \in DOMAIN log : log[i] = Ev("register", p)) =>
                p \in Range(providers)

\* C16: a factory can call back into the container while it runs.  The
\* container holds no lock: a factory that calls transient() through the
\* handle gets its dependency built by a nested call inside the outer one,
\* and an outer transient() call whose dependencies are acyclic always
\* returns a box; the stack is exhausted only when an identity depends on
\* itself.
C16_ReentrantCallsComplete ==
    /\ [](pc = "transient" =>
            /\ Len(stack) >= 1
            /\ \A i \in 1..(Len(stack) - 1) :
                    /\ stack[i].stage = "waiting"
                    /\ stack[i].f \in DepFactories
                    /\ stack[i + 1].t = Dep(stack[i].f)
            /\ AcyclicFrom(stack[1].t) => Len(stack) <= Cardinality(Types))
    /\ [](pc = "overflow" => ~AcyclicFrom(stack[1].t))
    /\ \A t \in Types :
            (pc = "transient" /\ stack[1].t = t /\ AcyclicFrom(t))
                ~> (/\ pc = "idle"
                    /\ last.op = "transient"
                    /\ last.t = t
                    /\ last.ret # None)

\* C16 witness: T2's factory D1 called transient(T1) from inside
\* transient(T2); the nested call built F1's box and the outer call has
\* returned D1's box holding it.
C16_Witness ==
    /\ pc = "idle"
    /\ last.op = "transient"
    /\ last.t = "T2"
    /\ factories = [t \in Types |-> IF t = "T1" THEN "F1" ELSE "D1"]
    /\ \E s \in last.ret :
        /\ s.by = "D1"
        /\ \E r \in s.holds : r.by = "F1" /\ r.id < s.id
    /\ Cardinality(built) = 2

\* The boxes built by closures that wrap a dependency.
Wrappers == {x \in built : x.by \in DepFactories}
\* Repository (T1) is bound to F1 and Service (T2) to D1, whose closure asks
\* the container for T1; every box built so far was built under these two
\* bindings, and every Service got its Repository.
RepositoryServiceBound ==
    /\ factories = [t \in Types |-> IF t = "T1" THEN "F1" ELSE "D1"]
    /\ \A x \in built : x.by \in {"F1", "D1"}
    /\ \A s \in Wrappers : s.holds # None

====
